---- MODULE Spec2Model ----
(***************************************************************************)
(* Model of src/cpp/tga_loader.cpp: the C-callable shim around stb_image.  *)
(*   int  tga_load_rgba(const char* path, TgaImage* out)                   *)
(*   void tga_free(TgaImage* img)                                          *)
(* Spec     : one caller issuing whole calls on two TgaImage records.      *)
(* ConcSpec : two threads, each on its own record, one step per source     *)
(*            line, interleaved.                                           *)
(***************************************************************************)
EXTENDS Integers, Sequences, FiniteSets, TLC

\* Number of buffers the decoder's allocator can hand out in one behaviour.
MaxAllocs == 3

\* size_t is 8 bytes wide (LP64 build); values of that type are kept as
\* little-endian byte strings so that the 64-bit wrap-around is exact.
SizeBytes == 8
\* int32_t is 4 bytes wide.
IntBytes == 4

NULL == 0
BufIds == 1..MaxAllocs

\* const char* path: a null pointer, or a pointer to a C string.
NullPath == [null |-> TRUE, str |-> ""]
EmptyPath == [null |-> FALSE, str |-> ""]
FilePath(s) == [null |-> FALSE, str |-> s]
Paths == {NullPath, EmptyPath, FilePath("a.tga")}

\* TgaImage* : a null pointer, or the address of one of the caller's records.
NullRec == "nullptr"
Recs == {"r1", "r2"}
RecPtrs == Recs \cup {NullRec}

-----------------------------------------------------------------------------
(* Fixed-width unsigned arithmetic on little-endian byte strings.          *)

RECURSIVE Bytes(_, _)
\* conversion of an integer to an unsigned type of k bytes (two's
\* complement: a negative int sign-extends, as (size_t)w does)
Bytes(n, k) == IF k = 0 THEN <<>> ELSE <<n % 256>> \o Bytes(n \div 256, k - 1)

RECURSIVE ColSum(_, _, _, _)
\* sum over j = 1..i of a[j] * b[i - j + 1], the i-th column of a * b
ColSum(a, b, i, j) ==
  IF j > i THEN 0
  ELSE (IF j <= Len(a) /\ i - j + 1 <= Len(b) THEN a[j] * b[i - j + 1] ELSE 0)
       + ColSum(a, b, i, j + 1)

RECURSIVE MulFrom(_, _, _, _, _)
MulFrom(a, b, k, i, carry) ==
  IF i > k THEN <<>>
  ELSE LET s == carry + ColSum(a, b, i, 1)
       IN <<s % 256>> \o MulFrom(a, b, k, i + 1, s \div 256)

\* a * b modulo 256^k
Mul(a, b, k) == MulFrom(a, b, k, 1, 0)

\* byte string with the high-order zero bytes removed (the number itself)
RECURSIVE Norm(_)
Norm(a) == IF Len(a) > 0 /\ a[Len(a)] = 0 THEN Norm(SubSeq(a, 1, Len(a) - 1)) ELSE a

\* the exact (unbounded) product w * h * 4 of two non-negative ints
ExactArea4(w, h) ==
  Norm(Mul(Mul(Bytes(w, IntBytes), Bytes(h, IntBytes), 2 * IntBytes),
           <<4>>, 2 * IntBytes + 1))

-----------------------------------------------------------------------------
(* struct TgaImage                                                         *)

SizeZero == Bytes(0, SizeBytes)

ZeroImage ==
  [width |-> 0, height |-> 0, channels |-> 0, data |-> NULL, len |-> SizeZero]

\* a record the caller pre-filled with sentinels and never populated
SentinelImage ==
  [width |-> -7, height |-> -7, channels |-> -7, data |-> NULL,
   len |-> Bytes(-7, SizeBytes)]

\* a variant that multiplies in 32 bits and widens the result
LenOfNarrow(w, h) ==
  Mul(Mul(Bytes(w, IntBytes), Bytes(h, IntBytes), IntBytes),
      Bytes(4, IntBytes), IntBytes) \o Bytes(0, SizeBytes - IntBytes)

\* (size_t)w * (size_t)h * 4, evaluated in size_t
LenOf(w, h) ==
  Mul(Mul(Bytes(w, SizeBytes), Bytes(h, SizeBytes), SizeBytes),
      Bytes(4, SizeBytes), SizeBytes)

\* a variant that stores the channel count the decoder reported for the file
PopulateReported(r, res) ==
  [r EXCEPT !.width = res.w, !.height = res.h, !.channels = res.c,
            !.data = res.p, !.len = LenOf(res.w, res.h)]

\* the five assignments through out on the success path
Populate(r, res) ==
  [r EXCEPT !.width = res.w, !.height = res.h, !.channels = 4,
            !.data = res.p, !.len = LenOf(res.w, res.h)]

\* a variant without line 32: the dimensions and channel count stay
ClearedPartial(r) == [r EXCEPT !.data = NULL, !.len = SizeZero]

\* a variant that does not clear the buffer reference
ClearedKeepData(r) ==
  [r EXCEPT !.len = SizeZero, !.width = 0, !.height = 0, !.channels = 0]

\* the five assignments through img in tga_free
Cleared(r) ==
  [r EXCEPT !.data = NULL, !.len = SizeZero,
            !.width = 0, !.height = 0, !.channels = 0]

STATUS_OK == 0
STATUS_INVALID_ARG == -1
STATUS_DECODE_FAIL == -2

-----------------------------------------------------------------------------
VARIABLES
  rec,        \* the caller's TgaImage records
  heap,       \* the decoder's allocator: state of each buffer
  freeCount,  \* how many times each buffer was passed to stbi_image_free
  wildFree,   \* some pointer passed to stbi_image_free was not a live buffer
  lost,       \* buffers whose only reference was overwritten by a decode
  zeroed,     \* which records started zero-initialised
  call,       \* the last completed call: arguments, decoder result, effects
  pc,         \* per thread: the source line it is about to execute
  frame,      \* per call frame: parameters and locals of the running call
  solo,       \* per thread: its record had its calls run alone, as whole calls
  touched     \* per thread: the records its steps have read or written

seqVars == <<rec, heap, freeCount, wildFree, lost, zeroed, call>>
concVars == <<pc, frame, solo, touched>>
vars == <<rec, heap, freeCount, wildFree, lost, zeroed, call,
          pc, frame, solo, touched>>

Threads == {"t1", "t2"}
\* each thread works on its own record and its own file
Own(t) == IF t = "t1" THEN "r1" ELSE "r2"
PathOf(t) == IF t = "t1" THEN FilePath("t1.tga") ELSE FilePath("t2.tga")

-----------------------------------------------------------------------------
(* The external decoder (stb_image), a black box.                          *)

\* <<width, height, channels in the file>> of the images a file may hold
Images ==
  { <<1, 1, 4>>, <<3, 2, 3>>, <<0, 0, 4>>, <<65536, 65536, 1>>,
    <<2147483647, 2147483647, 3>> }

\* what the file at a path may hold when it decodes
ImagesAt(path) ==
  IF path.str = "a.tga" THEN Images
  ELSE IF path.str = "t1.tga" THEN {<<3, 2, 3>>}
  ELSE IF path.str = "t2.tga" THEN {<<1, 1, 4>>, <<65536, 65536, 1>>}
  ELSE {}

DecFail == [ok |-> FALSE, w |-> 0, h |-> 0, c |-> 0, p |-> NULL]

Unused(h) == {b \in BufIds : h[b] = "unused"}
Fresh(h) == CHOOSE b \in Unused(h) : \A o \in Unused(h) : b <= o

\* stbi_load(path, &w, &h, &c, 4): the outcomes possible for a non-null path.
\* A file that cannot be opened (the empty name never can), is corrupt, or
\* whose pixel buffer cannot be allocated gives NULL; otherwise a new buffer.
stbi_load(path, h) ==
  {DecFail} \cup
  IF path.str = "" \/ Unused(h) = {} THEN {}
  ELSE {[ok |-> TRUE, w |-> i[1], h |-> i[2], c |-> i[3], p |-> Fresh(h)] :
          i \in ImagesAt(path)}

\* the allocator after stbi_load returned res
HeapAfterLoad(h, res) == IF res.ok THEN [h EXCEPT ![res.p] = "live"] ELSE h

\* stbi_image_free(p) is free(p): nothing for a null pointer
HeapAfterFree(h, p) == IF p = NULL THEN h ELSE [h EXCEPT ![p] = "freed"]
CountAfterFree(fc, p) == IF p = NULL THEN fc ELSE [fc EXCEPT ![p] = @ + 1]
IsWild(h, p) == p # NULL /\ h[p] # "live"

-----------------------------------------------------------------------------
(* tga_load_rgba and tga_free as whole calls.                              *)

\* variants that test only one of the two pointers
InvalidArgsNoPathCheck(path, out) == out = NullRec
InvalidArgsNoOutCheck(path, out) == path.null

\* if (!path || !out) return -1;
InvalidArgs(path, out) == path.null \/ out = NullRec

\* a variant that tests only img
ShouldFreeNoDataCheck(img) == img # NullRec

\* if (img && img->data)
ShouldFree(img) == img # NullRec /\ rec[img].data # NULL

\* *ptr as the caller sees it before the call (nothing behind a null pointer)
Before(ptr) == IF ptr \in Recs THEN rec[ptr] ELSE ZeroImage

NoCall ==
  [op |-> "none", path |-> NullPath, out |-> NullRec, invoked |-> FALSE,
   res |-> DecFail, status |-> 0, pre |-> ZeroImage, allocs |-> {},
   freed |-> <<>>, deref |-> {}]

\* what a call of tga_load_rgba did: whether the decoder ran, its result,
\* the returned status, the record before the call, the pointers read through
LoadCall(path, out, invoked, res, status, deref) ==
  [NoCall EXCEPT !.op = "load", !.path = path, !.out = out,
                 !.invoked = invoked,
                 !.res = res, !.status = status, !.pre = Before(out),
                 !.allocs = {b \in BufIds : heap[b] # "live" /\ heap'[b] = "live"},
                 !.deref = deref]

FreeCall(img, freed) ==
  [NoCall EXCEPT !.op = "free", !.out = img, !.pre = Before(img),
                 !.freed = freed, !.deref = {img} \ {NullRec}]

\* a variant that releases what the record holds before decoding into it
tga_load_rgba_release_first(path, out) ==
  IF InvalidArgs(path, out)
  THEN /\ UNCHANGED <<rec, heap, freeCount, wildFree, lost, zeroed>>
       /\ call' = LoadCall(path, out, FALSE, DecFail, STATUS_INVALID_ARG, {})
  ELSE \E res \in stbi_load(path, heap) :
         LET old == Before(out).data
             r1 == IF old # NULL THEN Cleared(Before(out)) ELSE Before(out)
         IN /\ heap' = HeapAfterLoad(HeapAfterFree(heap, old), res)
            /\ freeCount' = CountAfterFree(freeCount, old)
            /\ wildFree' = (wildFree \/ IsWild(heap, old))
            /\ rec' = [rec EXCEPT ![out] =
                         IF res.ok THEN Populate(r1, res) ELSE r1]
            /\ call' = LoadCall(path, out, TRUE, res,
                                IF res.ok THEN STATUS_OK
                                ELSE STATUS_DECODE_FAIL, {out})
            /\ UNCHANGED <<lost, zeroed>>

tga_load_rgba(path, out) ==
  IF InvalidArgs(path, out)
  THEN /\ UNCHANGED <<rec, heap, freeCount, wildFree, lost, zeroed>>
       /\ call' = LoadCall(path, out, FALSE, DecFail, STATUS_INVALID_ARG, {})
  ELSE \E res \in stbi_load(path, heap) :
         /\ heap' = HeapAfterLoad(heap, res)
         /\ IF ~res.ok
            THEN /\ UNCHANGED <<rec, lost>>
                 /\ call' = LoadCall(path, out, TRUE, res, STATUS_DECODE_FAIL, {})
            ELSE /\ rec' = [rec EXCEPT ![out] = Populate(@, res)]
                 /\ lost' = lost \cup ({Before(out).data} \ {NULL})
                 /\ call' = LoadCall(path, out, TRUE, res, STATUS_OK, {out})
         /\ UNCHANGED <<freeCount, wildFree, zeroed>>

tga_free(img) ==
  IF ShouldFree(img)
  THEN LET p == rec[img].data
       IN /\ heap' = HeapAfterFree(heap, p)
          /\ freeCount' = CountAfterFree(freeCount, p)
          /\ wildFree' = (wildFree \/ IsWild(heap, p))
          /\ rec' = [rec EXCEPT ![img] = Cleared(@)]
          /\ call' = FreeCall(img, <<p>>)
          /\ UNCHANGED <<lost, zeroed>>
  ELSE /\ UNCHANGED <<rec, heap, freeCount, wildFree, lost, zeroed>>
       /\ call' = FreeCall(img, <<>>)

Load == \E path \in Paths, out \in RecPtrs : tga_load_rgba(path, out)
Free == \E img \in RecPtrs : tga_free(img)

SeqInit ==
  /\ zeroed \in [Recs -> BOOLEAN]
  /\ rec = [r \in Recs |-> IF zeroed[r] THEN ZeroImage ELSE SentinelImage]
  /\ heap = [b \in BufIds |-> "unused"]
  /\ freeCount = [b \in BufIds |-> 0]
  /\ wildFree = FALSE
  /\ lost = {}
  /\ call = NoCall

-----------------------------------------------------------------------------
(* The same two functions, one step per source line, run by two threads.   *)

NoFrame ==
  [path |-> NullPath, out |-> NullRec, w |-> 0, h |-> 0, c |-> 0, p |-> NULL]

\* a variant with static storage: every call uses the same frame
SlotStatic(t) == "t1"

\* parameters and locals have automatic storage: one frame per running call
Slot(t) == t

\* the whole-call effect of each function on one record
LoadEffect(r, res) == IF res.ok THEN Populate(r, res) ELSE r
FreeEffect(r) == IF r.data # NULL THEN Cleared(r) ELSE r

Touch(t, ptr) == [touched EXCEPT ![t] = @ \cup ({ptr} \ {NullRec})]
Return(t) ==
  /\ pc' = [pc EXCEPT ![t] = "idle"]
  /\ frame' = [frame EXCEPT ![Slot(t)] = NoFrame]
Goto(t, l) == pc' = [pc EXCEPT ![t] = l]

CallLoad(t) ==
  /\ pc[t] = "idle"
  /\ Goto(t, "L19")
  /\ frame' = [frame EXCEPT ![Slot(t)] =
                 [NoFrame EXCEPT !.path = PathOf(t), !.out = Own(t)]]
  /\ UNCHANGED <<seqVars, solo, touched>>

\* if (!path || !out) return -1;  int w=0,h=0,c=0;
L19(t) ==
  /\ pc[t] = "L19"
  /\ IF InvalidArgs(frame[Slot(t)].path, frame[Slot(t)].out)
     THEN Return(t)
     ELSE /\ Goto(t, "L21")
          /\ frame' = [frame EXCEPT ![Slot(t)].w = 0, ![Slot(t)].h = 0,
                                    ![Slot(t)].c = 0]
  /\ UNCHANGED <<seqVars, solo, touched>>

\* unsigned char* p = stbi_load(path, &w, &h, &c, 4);
L21(t) ==
  /\ pc[t] = "L21"
  /\ \E res \in stbi_load(frame[Slot(t)].path, heap) :
       /\ heap' = HeapAfterLoad(heap, res)
       /\ frame' = [frame EXCEPT ![Slot(t)].w = res.w, ![Slot(t)].h = res.h,
                                 ![Slot(t)].c = res.c, ![Slot(t)].p = res.p]
       /\ solo' = [solo EXCEPT ![t] = LoadEffect(@, res)]
  /\ Goto(t, "L22")
  /\ UNCHANGED <<rec, freeCount, wildFree, lost, zeroed, call, touched>>

\* if (!p) return -2;
L22(t) ==
  /\ pc[t] = "L22"
  /\ IF frame[Slot(t)].p = NULL
     THEN Return(t)
     ELSE Goto(t, "L23") /\ UNCHANGED frame
  /\ UNCHANGED <<seqVars, solo, touched>>

\* out->width = w; out->height = h; out->channels = 4;
L23(t) ==
  /\ pc[t] = "L23"
  /\ LET f == frame[Slot(t)]
     IN /\ rec' = [rec EXCEPT ![f.out] =
                     [@ EXCEPT !.width = f.w, !.height = f.h, !.channels = 4]]
        /\ touched' = Touch(t, f.out)
  /\ Goto(t, "L24")
  /\ UNCHANGED <<heap, freeCount, wildFree, lost, zeroed, call, frame, solo>>

\* out->data = p; out->len = (size_t)w * (size_t)h * 4;  return 0;
L24(t) ==
  /\ pc[t] = "L24"
  /\ LET f == frame[Slot(t)]
     IN /\ rec' = [rec EXCEPT ![f.out] =
                     [@ EXCEPT !.data = f.p, !.len = LenOf(f.w, f.h)]]
        /\ lost' = lost \cup ({Before(f.out).data} \ {NULL})
        /\ touched' = Touch(t, f.out)
  /\ Return(t)
  /\ UNCHANGED <<heap, freeCount, wildFree, zeroed, call, solo>>

CallFree(t) ==
  /\ pc[t] = "idle"
  /\ Goto(t, "F29")
  /\ frame' = [frame EXCEPT ![Slot(t)] = [NoFrame EXCEPT !.out = Own(t)]]
  /\ solo' = [solo EXCEPT ![t] = FreeEffect(@)]
  /\ UNCHANGED <<seqVars, touched>>

\* if (img && img->data)
F29(t) ==
  /\ pc[t] = "F29"
  /\ LET img == frame[Slot(t)].out
     IN /\ IF img # NullRec /\ Before(img).data # NULL
           THEN Goto(t, "F30") /\ UNCHANGED frame
           ELSE Return(t)
        /\ touched' = Touch(t, img)
  /\ UNCHANGED <<seqVars, solo>>

\* stbi_image_free(img->data);
F30(t) ==
  /\ pc[t] = "F30"
  /\ LET img == frame[Slot(t)].out
         p == Before(img).data
     IN /\ heap' = HeapAfterFree(heap, p)
        /\ freeCount' = CountAfterFree(freeCount, p)
        /\ wildFree' = (wildFree \/ IsWild(heap, p))
        /\ touched' = Touch(t, img)
  /\ Goto(t, "F31")
  /\ UNCHANGED <<rec, lost, zeroed, call, frame, solo>>

\* img->data = nullptr; img->len = 0;
F31(t) ==
  /\ pc[t] = "F31"
  /\ LET img == frame[Slot(t)].out
     IN /\ rec' = [rec EXCEPT ![img] =
                     [@ EXCEPT !.data = NULL, !.len = SizeZero]]
        /\ touched' = Touch(t, img)
  /\ Goto(t, "F32")
  /\ UNCHANGED <<heap, freeCount, wildFree, lost, zeroed, call, frame, solo>>

\* img->width = img->height = img->channels = 0;
F32(t) ==
  /\ pc[t] = "F32"
  /\ LET img == frame[Slot(t)].out
     IN /\ rec' = [rec EXCEPT ![img] =
                     [@ EXCEPT !.width = 0, !.height = 0, !.channels = 0]]
        /\ touched' = Touch(t, img)
  /\ Return(t)
  /\ UNCHANGED <<heap, freeCount, wildFree, lost, zeroed, call, solo>>

ConcInit ==
  /\ pc = [t \in Threads |-> "idle"]
  /\ frame = [t \in Threads |-> NoFrame]
  /\ solo = [t \in Threads |-> rec[Own(t)]]
  /\ touched = [t \in Threads |-> {}]

Init == SeqInit /\ ConcInit

Next ==
  \/ Load /\ UNCHANGED concVars
  \/ Free /\ UNCHANGED concVars

Spec == Init /\ [][Next]_vars

ConcNext ==
  \E t \in Threads :
    \/ CallLoad(t) \/ L19(t) \/ L21(t) \/ L22(t) \/ L23(t) \/ L24(t)
    \/ CallFree(t) \/ F29(t) \/ F30(t) \/ F31(t) \/ F32(t)

ConcSpec == Init /\ [][ConcNext]_vars

-----------------------------------------------------------------------------
(* Properties.                                                             *)

LoadOn(ptrs) == call.op = "load" /\ call.out \in ptrs
FreeOn(ptrs) == call.op = "free" /\ call.out \in ptrs
\* the record's length field is the exact product width * height * 4
LenExact(r) == Norm(r.len) = ExactArea4(r.width, r.height)

\* C1: a decode with non-null path and record in which the decoder succeeds
\* with W x H returns 0 and leaves width = W, height = H, channels = 4
\* (whatever the file's channel count), data = the decoder's buffer and
\* len = W * H * 4.
DecodeSuccessPopulates ==
  (LoadOn(Recs) /\ ~call.path.null /\ call.res.ok) =>
    /\ call.status = 0
    /\ rec[call.out].width = call.res.w
    /\ rec[call.out].height = call.res.h
    /\ rec[call.out].channels = 4
    /\ rec[call.out].data = call.res.p
    /\ Norm(rec[call.out].len) = ExactArea4(call.res.w, call.res.h)

DecodeSuccessWitness ==
  /\ LoadOn(Recs) /\ call.res.ok /\ call.status = 0
  /\ call.res.c = 1 /\ call.res.w = 65536
  /\ rec[call.out].len = <<0, 0, 0, 0, 4, 0, 0, 0>>

NullOutIsInvalidArg ==
  LoadOn({NullRec}) =>
    /\ call.status = -1
    /\ ~call.invoked
    /\ call.deref = {}
    /\ call.allocs = {}

NullOutWitness ==
  /\ LoadOn({NullRec}) /\ call.path = FilePath("a.tga") /\ call.status = -1
  /\ \E b \in BufIds : heap[b] = "live"

\* C4: with non-null path and record, a decoder failure gives the
\* decode-failure status, negative and different from the invalid-argument
\* status; nothing is allocated and the record is left as it was.
DecodeFailureUntouched ==
  (LoadOn(Recs) /\ ~call.path.null /\ call.invoked /\ ~call.res.ok) =>
    /\ call.status = STATUS_DECODE_FAIL
    /\ STATUS_DECODE_FAIL < 0
    /\ STATUS_DECODE_FAIL # STATUS_INVALID_ARG
    /\ call.allocs = {}
    /\ rec[call.out] = call.pre

DecodeFailureWitness ==
  /\ LoadOn(Recs) /\ call.path = FilePath("a.tga") /\ ~call.res.ok
  /\ call.status = -2
  /\ call.pre.data # NULL /\ rec[call.out] = call.pre

\* C5: release of a record holding a decoded buffer passes that buffer to
\* stbi_image_free exactly once and leaves data null and len, width, height,
\* channels all 0.
ReleaseFreesAndZeroes ==
  (FreeOn(Recs) /\ call.pre.data # NULL) =>
    /\ call.freed = <<call.pre.data>>
    /\ freeCount[call.pre.data] = 1
    /\ heap[call.pre.data] = "freed"
    /\ rec[call.out] = ZeroImage

ReleaseWitness ==
  /\ FreeOn(Recs) /\ call.pre.data # NULL /\ call.pre.width = 3
  /\ call.pre.channels = 4 /\ rec[call.out].width = 0

\* C6: release of a record whose data is null (released before, or never
\* populated, whatever its other fields hold), or of a null pointer, calls
\* no deallocation and changes no field.
ReleaseOfNullIsNoOp ==
  (call.op = "free" /\ call.pre.data = NULL) =>
    /\ call.freed = <<>>
    /\ call.out \in Recs => rec[call.out] = call.pre

ReleaseOfNullWitness ==
  /\ FreeOn(Recs) /\ call.pre = SentinelImage /\ rec[call.out] = SentinelImage
  /\ \E b \in BufIds : freeCount[b] = 1

\* C7: with records that start zeroed, no buffer is passed to
\* stbi_image_free more than once, and every pointer passed to it was a
\* buffer returned by a successful decode and live at that moment.
NoDoubleFree ==
  (\A r \in Recs : zeroed[r]) =>
    /\ ~wildFree
    /\ \A b \in BufIds :
         /\ freeCount[b] <= 1
         /\ freeCount[b] = 1 <=> heap[b] = "freed"

NoDoubleFreeWitness ==
  /\ \A r \in Recs : zeroed[r]
  /\ FreeOn(Recs) /\ call.pre = ZeroImage
  /\ \E b \in BufIds : freeCount[b] = 1
  /\ \E b \in BufIds : heap[b] = "live"

\* C8: every record that started zeroed satisfies len = width * height * 4
\* as an exact product (no wrap-around of the 64-bit size type), data is
\* null exactly when channels is 0, and channels is 4 otherwise.
RecordInvariant ==
  \A r \in Recs :
    zeroed[r] =>
      /\ LenExact(rec[r])
      /\ rec[r].data = NULL <=> rec[r].channels = 0
      /\ rec[r].data # NULL => rec[r].channels = 4

RecordInvariantWitness ==
  \E r \in Recs :
    /\ zeroed[r] /\ rec[r].data # NULL
    /\ rec[r].width = 2147483647 /\ rec[r].height = 2147483647
    /\ rec[r].len = <<4, 0, 0, 0, 252, 255, 255, 255>>

\* C9: when two threads run decode and release on their own records, line
\* by line in any interleaving, no step of a thread reads or writes the other
\* thread's record, and whenever a thread is between calls its record is what
\* its own calls, run alone as whole calls, would have made it.
ConcIndependent ==
  \A t \in Threads :
    /\ touched[t] \subseteq {Own(t)}
    /\ pc[t] = "idle" => rec[Own(t)] = solo[t]

ConcWitness ==
  /\ pc["t1"] = "L24" /\ pc["t2"] = "F31"
  /\ touched["t1"] = {"r1"} /\ touched["t2"] = {"r2"}
  /\ rec["r1"].data # NULL

\* C10: a successful decode into a record that holds a buffer does not free
\* that buffer: the reference is overwritten with the new buffer, the old
\* buffer stays allocated and is never again referenced by a record, and a
\* later release frees only the buffer the record holds then.
OverwriteLeaksOldBuffer ==
  /\ (LoadOn(Recs) /\ call.status = 0 /\ call.pre.data # NULL) =>
       /\ heap[call.pre.data] = "live"
       /\ freeCount[call.pre.data] = 0
       /\ rec[call.out].data = call.res.p
       /\ call.res.p # call.pre.data
       /\ call.pre.data \in lost
  /\ \A b \in lost :
       /\ heap[b] = "live" /\ freeCount[b] = 0
       /\ \A r \in Recs : rec[r].data # b
  /\ (FreeOn(Recs) /\ call.freed # <<>>) =>
       /\ call.freed = <<call.pre.data>>
       /\ call.pre.data \notin lost

OverwriteWitness ==
  /\ FreeOn(Recs) /\ call.freed = <<2>>
  /\ lost = {1} /\ heap[1] = "live" /\ heap[2] = "freed"
  /\ rec[call.out].data = NULL

====
